---- MODULE Spec2Model ----
(***************************************************************************)
(* The calculator screen of app/(tabs)/index.tsx: the expression-editing   *)
(* state machine driven by key presses, and the evaluation / formatting of *)
(* the expression into the displayed result.                               *)
(*                                                                         *)
(* A string is a sequence of one-character strings.  The four characters   *)
(* of the keypad that are not ASCII are written by their code point.       *)
(***************************************************************************)
EXTENDS Integers, Sequences, FiniteSets, TLC

\* ------------------------------------------------------------ characters

Times == "U+00D7"
Divide == "U+00F7"
Minus == "U+2212"
Pi == "U+03C0"

DigitChars == <<"0", "1", "2", "3", "4", "5", "6", "7", "8", "9">>

AllDigits == {DigitChars[i] : i \in 1..10}

\* ---------------------------------------------------------------- bounds

\* The digit keys pressed are "0" .. DigitChars[MaxDigit + 1].
MaxDigit == 1

\* A key that appends to the expression is pressed only while the
\* expression is shorter than MaxTyped characters.
MaxTyped == 3

\* A key that rewrites the end of the expression is pressed only when the
\* rewritten expression has at most MaxLen characters.
MaxLen == 9


\* The longest expression typed with the keys of the parenthesized numbers.
MaxSigned == 5
\* The most presses handled between two renders.
MaxBatch == 2

\* ------------------------------------------------------- string helpers

LastChar(s) == s[Len(s)]

DropLast(s, n) == SubSeq(s, 1, Len(s) - n)

Suffix(s, i) == SubSeq(s, i, Len(s))

AllDigitsIn(s, i, j) == \A k \in i..j : s[k] \in AllDigits

AllZerosIn(s, i, j) == \A k \in i..j : s[k] = "0"

Contains(s, ch) == \E k \in 1..Len(s) : s[k] = ch

\* ------------------------------------------------------------- helpers

\* sanitize without the replacement of U+2212.
SanitizeCharKeepsMinus(ch) ==
  IF ch = Times THEN <<"*">>
  ELSE IF ch = Divide THEN <<"/">>
  ELSE IF ch = Pi THEN <<"p", "i">>
  ELSE <<ch>>

\* What the four replace() calls of sanitize do to one character.
SanitizeChar(ch) ==
  IF ch = Times THEN <<"*">>
  ELSE IF ch = Divide THEN <<"/">>
  ELSE IF ch = Minus THEN <<"-">>
  ELSE IF ch = Pi THEN <<"p", "i">>
  ELSE <<ch>>

RECURSIVE sanitize(_)
sanitize(expr) ==
  IF expr = <<>> THEN <<>>
  ELSE SanitizeChar(Head(expr)) \o sanitize(Tail(expr))

isOp(ch) == ch \in {"+", "-", Times, Divide, "*", "/"}

endsWithValueToken(ch) == ch \in AllDigits \/ ch = ")" \/ ch = Pi \/ ch = "e"

\* needsImplicitMultiply without the test of the token that follows.
needsImplicitMultiplyAnyNext(prev, nextStartsWith) ==
  IF prev = <<>> THEN FALSE ELSE endsWithValueToken(LastChar(prev))

needsImplicitMultiply(prev, nextStartsWith) ==
  IF prev = <<>> THEN FALSE
  ELSE LET last == LastChar(prev)
           nextIsValue == nextStartsWith \in {"(", Pi, "e"}
       IN  endsWithValueToken(last) /\ nextIsValue

\* s matches ^\d+(\.\d+)?$ from position i to its end.
NumberFrom(s, i) ==
  \E k \in i..Len(s) :
     /\ AllDigitsIn(s, i, k)
     /\ \/ k = Len(s)
        \/ /\ k + 2 <= Len(s)
           /\ s[k + 1] = "."
           /\ AllDigitsIn(s, k + 2, Len(s))

\* The match of /(\d+)$/ instead: the fraction group dropped.
LastNumberStartInteger(s) ==
  LET starts == {i \in 1..Len(s) : AllDigitsIn(s, i, Len(s))}
  IN  IF starts = {} THEN 0
      ELSE CHOOSE i \in starts : \A j \in starts : i <= j

\* The start of the match of /(\d+(\.\d+)?)$/ in s, 0 when there is none:
\* the engine tries the start positions from the left.
LastNumberStart(s) ==
  LET starts == {i \in 1..Len(s) : NumberFrom(s, i)}
  IN  IF starts = {} THEN 0
      ELSE CHOOSE i \in starts : \A j \in starts : i <= j

\* replaceLastNumber that wraps the whole expression when it ends with no
\* number.
replaceLastNumberOrAll(expr, open, close) ==
  LET i == LastNumberStart(expr)
  IN  IF i = 0 THEN open \o expr \o close
      ELSE SubSeq(expr, 1, i - 1) \o open \o Suffix(expr, i) \o close

replaceLastNumber(expr, open, close) ==
  LET i == LastNumberStart(expr)
  IN  IF i = 0 THEN expr
      ELSE SubSeq(expr, 1, i - 1) \o open \o Suffix(expr, i) \o close

\* Percent of the whole expression instead of its last number.
applyPercentWhole(expr) ==
  IF LastNumberStart(expr) = 0 THEN expr
  ELSE <<"(">> \o expr \o <<"/", "1", "0", "0", ")">>

\* Percent that divides without wrapping in parentheses.
applyPercentBare(expr) ==
  replaceLastNumber(expr, <<>>, <<"/", "1", "0", "0">>)

applyPercent(expr) ==
  replaceLastNumber(expr, <<"(">>, <<"/", "1", "0", "0", ")">>)

\* The start of the match of /\(-\d+(\.\d+)?\)$/ in s, 0 when there is none.
NegatedStart(s) ==
  LET body == DropLast(s, 1)
      starts == {i \in 1..(Len(s) - 3) :
                   /\ s[i] = "("
                   /\ s[i + 1] = "-"
                   /\ LastChar(s) = ")"
                   /\ NumberFrom(body, i + 2)}
  IN  IF starts = {} THEN 0
      ELSE CHOOSE i \in starts : \A j \in starts : i <= j

\* toggleSign that unwraps "(" minus n ")" for the keypad minus U+2212 as
\* well as for the ASCII "-".
toggleSignAnyMinus(expr) ==
  LET body == DropLast(expr, 1)
      starts == {i \in 1..(Len(expr) - 3) :
                   /\ expr[i] = "("
                   /\ expr[i + 1] \in {"-", Minus}
                   /\ LastChar(expr) = ")"
                   /\ NumberFrom(body, i + 2)}
      u == IF starts = {} THEN 0
           ELSE CHOOSE i \in starts : \A j \in starts : i <= j
      i == LastNumberStart(expr)
  IN  IF u # 0
        THEN SubSeq(expr, 1, u - 1) \o SubSeq(expr, u + 2, Len(expr) - 1)
      ELSE IF i # 0
        THEN SubSeq(expr, 1, i - 1) \o <<"(", "-">> \o Suffix(expr, i) \o <<")">>
      ELSE IF Len(expr) = 0 THEN <<"-">>
      ELSE expr

\* toggleSign wrapping the last number as -n, without the parentheses.
toggleSignNoParens(expr) ==
  LET u == NegatedStart(expr)
      i == LastNumberStart(expr)
  IN  IF u # 0
        THEN SubSeq(expr, 1, u - 1) \o SubSeq(expr, u + 2, Len(expr) - 1)
      ELSE IF i # 0
        THEN SubSeq(expr, 1, i - 1) \o <<"-">> \o Suffix(expr, i)
      ELSE IF Len(expr) = 0 THEN <<"-">>
      ELSE expr

toggleSign(expr) ==
  LET u == NegatedStart(expr)
      i == LastNumberStart(expr)
  IN  IF u # 0
        THEN SubSeq(expr, 1, u - 1) \o SubSeq(expr, u + 2, Len(expr) - 1)
      ELSE IF i # 0
        THEN SubSeq(expr, 1, i - 1) \o <<"(", "-">> \o Suffix(expr, i) \o <<")">>
      ELSE IF Len(expr) = 0 THEN <<"-">>
      ELSE expr

\* ------------------------------------------------------------- numbers

\* A value the parser hands back: kind "fin" is the finite number
\* (-1)^neg * 0.d1 d2 ... dk * 10^n, where digs = <<d1, ..., dk>> are the
\* digits of its shortest decimal form (none for zero; d1 and dk not 0);
\* kind "nan" and "inf" are NaN and the two infinities; kind "throw" is a
\* parse or evaluation error thrown by the parser.
Fin(neg, digs, n) == [kind |-> "fin", neg |-> neg, digs |-> digs, n |-> n]

NaN == [kind |-> "nan", neg |-> FALSE, digs |-> <<>>, n |-> 0]

Infinity(neg) == [kind |-> "inf", neg |-> neg, digs |-> <<>>, n |-> 0]

Thrown == [kind |-> "throw", neg |-> FALSE, digs |-> <<>>, n |-> 0]

isFinite(value) == value.kind = "fin"

Zeros(m) == [i \in 1..m |-> "0"]

DigitStr(ds) == [i \in 1..Len(ds) |-> DigitChars[ds[i] + 1]]

RECURSIVE NatStr(_)
NatStr(m) ==
  IF m < 10 THEN <<DigitChars[m + 1]>>
  ELSE NatStr(m \div 10) \o <<DigitChars[(m % 10) + 1]>>

ExponentStr(e) ==
  <<"e">> \o (IF e >= 0 THEN <<"+">> \o NatStr(e) ELSE <<"-">> \o NatStr(-e))

SignStr(neg) == IF neg THEN <<"-">> ELSE <<>>

\* Number.prototype.toString of a finite value (ECMAScript Number::toString).
FiniteToString(v) ==
  LET k == Len(v.digs)
      n == v.n
      s == DigitStr(v.digs)
  IN  IF k = 0 THEN <<"0">>
      ELSE SignStr(v.neg) \o
           (IF k <= n /\ n <= 21 THEN s \o Zeros(n - k)
            ELSE IF 0 < n /\ n <= 21
              THEN SubSeq(s, 1, n) \o <<".">> \o SubSeq(s, n + 1, k)
            ELSE IF -6 < n /\ n <= 0 THEN <<"0", ".">> \o Zeros(-n) \o s
            ELSE IF k = 1 THEN s \o ExponentStr(n - 1)
            ELSE <<s[1]>> \o <<".">> \o SubSeq(s, 2, k) \o ExponentStr(n - 1))

\* The digit string ds read as a natural number, plus one.
RECURSIVE Inc(_)
Inc(ds) ==
  IF ds = <<>> THEN <<1>>
  ELSE IF ds[Len(ds)] < 9 THEN [ds EXCEPT ![Len(ds)] = @ + 1]
  ELSE Inc(SubSeq(ds, 1, Len(ds) - 1)) \o <<0>>

RECURSIVE StripZeroDigits(_)
StripZeroDigits(ds) ==
  IF ds = <<>> \/ ds[Len(ds)] # 0 THEN ds
  ELSE StripZeroDigits(SubSeq(ds, 1, Len(ds) - 1))

Precision == 10

\* value.toPrecision(10) of a finite value.  The digits kept are rounded
\* half up on the shortest decimal form of the value.
toPrecision(v) ==
  LET p == Precision
      k == Len(v.digs)
      head == SubSeq(v.digs, 1, p)
      r == IF k > p /\ v.digs[p + 1] >= 5 THEN Inc(head) ELSE head
      m == IF k = 0 THEN [i \in 1..p |-> 0]
           ELSE IF k <= p THEN v.digs \o [i \in 1..(p - k) |-> 0]
           ELSE SubSeq(r, 1, p)
      e == IF k = 0 THEN 0
           ELSE IF k > p /\ Len(r) > p THEN v.n
           ELSE v.n - 1
      s == DigitStr(m)
  IN  SignStr(v.neg /\ k > 0) \o
      (IF e < -6 \/ e >= p
         THEN <<s[1]>> \o <<".">> \o SubSeq(s, 2, p) \o ExponentStr(e)
       ELSE IF e = p - 1 THEN s
       ELSE IF e >= 0 THEN SubSeq(s, 1, e + 1) \o <<".">> \o SubSeq(s, e + 2, p)
       ELSE <<"0", ".">> \o Zeros(-(e + 1)) \o s)

DecimalPlaces == 10

\* Math.round(value * 1e10) / 1e10 of a finite value: Math.round rounds a
\* tie towards +infinity.  The product and the quotient are taken exactly,
\* on the shortest decimal form of the value.
RoundPlaces(v) ==
  LET k == Len(v.digs)
      keep == v.n + DecimalPlaces
      head == SubSeq(v.digs, 1, keep)
      next == v.digs[keep + 1]
      up == IF v.neg THEN next > 5 \/ (next = 5 /\ k > keep + 1) ELSE next >= 5
      r == IF up THEN Inc(head) ELSE head
      ds == StripZeroDigits(r)
  IN  IF k - v.n <= DecimalPlaces THEN v
      ELSE IF keep < 0 THEN Fin(v.neg, <<>>, 0)
      ELSE IF ds = <<>> THEN Fin(v.neg, <<>>, 0)
      ELSE Fin(v.neg, ds, IF Len(r) > keep THEN v.n + 1 ELSE v.n)

\* s.replace(/\.?0+$/, "")
StripExpZeros(s) ==
  LET starts == {i \in 1..Len(s) :
                   \/ AllZerosIn(s, i, Len(s))
                   \/ s[i] = "." /\ i < Len(s) /\ AllZerosIn(s, i + 1, Len(s))}
  IN  IF starts = {} THEN s
      ELSE SubSeq(s, 1, (CHOOSE i \in starts : \A j \in starts : i <= j) - 1)

\* s.replace(/\.0+$/, "")
StripPointZeros(s) ==
  LET starts == {i \in 1..(Len(s) - 1) :
                   s[i] = "." /\ AllZerosIn(s, i + 1, Len(s))}
  IN  IF starts = {} THEN s
      ELSE SubSeq(s, 1, (CHOOSE i \in starts : \A j \in starts : i <= j) - 1)

\* s.replace(/(\.\d*?)0+$/, "$1"): from the first "." that only digits
\* follow, the last being "0", the lazy group stops before the final run
\* of zeros.
StripFractionZeros(s) ==
  LET starts == {i \in 1..(Len(s) - 1) :
                   /\ s[i] = "."
                   /\ AllDigitsIn(s, i + 1, Len(s))
                   /\ s[Len(s)] = "0"}
      i0 == CHOOSE i \in starts : \A j \in starts : i <= j
      cuts == {j \in i0..(Len(s) - 1) : AllZerosIn(s, j + 1, Len(s))}
  IN  IF starts = {} THEN s
      ELSE SubSeq(s, 1, CHOOSE j \in cuts : \A h \in cuts : j <= h)

ErrorStr == <<"E", "r", "r", "o", "r">>

\* formatResult without the rounding to 10 decimal places.
formatResultNoRounding(value) ==
  IF ~isFinite(value) THEN ErrorStr
  ELSE LET asStr == FiniteToString(value)
       IN  IF Contains(asStr, "e") THEN StripExpZeros(toPrecision(value))
           ELSE StripFractionZeros(StripPointZeros(asStr))

\* formatResult without the isFinite test: String(NaN), String(Infinity).
formatResultUnchecked(value) ==
  IF value.kind = "nan" THEN <<"N", "a", "N">>
  ELSE IF value.kind = "inf"
    THEN SignStr(value.neg) \o <<"I", "n", "f", "i", "n", "i", "t", "y">>
  ELSE LET asStr == FiniteToString(value)
       IN  IF Contains(asStr, "e") THEN StripExpZeros(toPrecision(value))
           ELSE StripFractionZeros(
                  StripPointZeros(FiniteToString(RoundPlaces(value))))

formatResult(value) ==
  IF ~isFinite(value) THEN ErrorStr
  ELSE LET asStr == FiniteToString(value)
       IN  IF Contains(asStr, "e") THEN StripExpZeros(toPrecision(value))
           ELSE StripFractionZeros(
                  StripPointZeros(FiniteToString(RoundPlaces(value))))

\* evaluateNow: the parser's answer for the sanitized expression is
\* `outcome`; a throw inside the try block gives "Error".
evaluateNow(expr, outcome) ==
  LET clean == sanitize(expr)
  IN  IF outcome.kind = "throw" THEN ErrorStr
      ELSE formatResult(outcome)

appendToken(prev, token) ==
  IF needsImplicitMultiply(prev, token[1]) THEN prev \o <<Times>> \o token
  ELSE prev \o token

\* ------------------------------------------------------ key handlers

\* String.prototype.trim, for the one white-space character " ".
RECURSIVE TrimLeft(_)
TrimLeft(s) == IF s # <<>> /\ Head(s) = " " THEN TrimLeft(Tail(s)) ELSE s

RECURSIVE TrimRight(_)
TrimRight(s) ==
  IF s # <<>> /\ LastChar(s) = " " THEN TrimRight(DropLast(s, 1)) ELSE s

trim(s) == TrimRight(TrimLeft(s))

SqrtOpen == <<"s", "q", "r", "t", "(">>

\* case "x²" that appends to every non-empty expression.
SquareUpdaterAnyEnd(prev) ==
  IF prev = <<>> THEN prev ELSE prev \o <<"^", "2">>

\* case "x²": the updater handed to setExpression.
SquareUpdater(prev) ==
  IF prev = <<>> THEN prev
  ELSE IF endsWithValueToken(LastChar(prev)) THEN prev \o <<"^", "2">>
  ELSE prev

\* case "√" that wraps the whole expression.
SqrtUpdaterWhole(prev) ==
  LET i == LastNumberStart(prev)
  IN  IF i # 0 THEN SqrtOpen \o prev \o <<")">>
      ELSE appendToken(prev, SqrtOpen)

\* case "√"
SqrtUpdater(prev) ==
  LET i == LastNumberStart(prev)
  IN  IF i # 0
        THEN SubSeq(prev, 1, i - 1) \o SqrtOpen \o Suffix(prev, i) \o <<")">>
      ELSE appendToken(prev, SqrtOpen)

\* case "x^y"
PowerUpdater(prev) ==
  IF prev = <<>> THEN prev
  ELSE IF endsWithValueToken(LastChar(prev)) THEN prev \o <<"^">>
  ELSE prev

\* An operator case without the guard of the empty expression.
OperatorUpdaterLeading(prev, res, label) ==
  IF prev = <<>> THEN res \o <<label>>
  ELSE IF isOp(LastChar(prev)) THEN DropLast(prev, 1) \o <<label>>
  ELSE prev \o <<label>>

\* An operator case that starts from the empty expression whatever the
\* result is.
OperatorUpdaterNoSeed(prev, res, label) ==
  IF prev = <<>> THEN <<>>
  ELSE IF isOp(LastChar(prev)) THEN DropLast(prev, 1) \o <<label>>
  ELSE prev \o <<label>>

\* case "+", "−", "×", "÷": `res` is the result the handler's closure holds.
OperatorUpdater(prev, res, label) ==
  IF prev = <<>> /\ res # <<"0">> THEN res \o <<label>>
  ELSE IF prev = <<>> THEN <<>>
  ELSE IF isOp(LastChar(prev)) THEN DropLast(prev, 1) \o <<label>>
  ELSE prev \o <<label>>

\* case "π", "e" and case "(", ")"
TokenUpdater(prev, label) == appendToken(prev, <<label>>)

\* A digit case that refuses a second "." in the number being typed.
DigitUpdaterOneDot(prev, label) ==
  LET dots == {i \in 1..Len(prev) :
                 prev[i] = "." /\ \A k \in i..Len(prev) : prev[k] \in AllDigits \cup {"."}}
  IN  IF label = "." /\ dots # {} THEN prev ELSE trim(prev \o <<label>>)

\* case ".", "0" .. "9"
DigitUpdater(prev, label) == trim(prev \o <<label>>)

\* case "=": the expression and the result set from the expression `expr`
\* and result `res` of the handler's closure; `prev` is the expression
\* the state holds, kept when setExpression is not called.
\* "=" that sets the expression to r whatever r is.
EqualsExpressionAlways(prev, expr, res, outcome) ==
  IF trim(expr) = <<>> THEN prev ELSE evaluateNow(expr, outcome)

\* "=" that never sets the expression.
EqualsExpressionNever(prev, expr, res, outcome) == prev

\* "=" that empties the expression when the evaluation fails.
EqualsExpressionClearsOnError(prev, expr, res, outcome) ==
  IF trim(expr) = <<>> THEN prev
  ELSE LET r == evaluateNow(expr, outcome)
       IN  IF r # ErrorStr THEN r ELSE <<>>

EqualsExpression(prev, expr, res, outcome) ==
  IF trim(expr) = <<>> THEN prev
  ELSE LET r == evaluateNow(expr, outcome)
       IN  IF r # ErrorStr THEN r ELSE prev

\* "=" that evaluates the empty expression too.
EqualsResultEvaluatesEmpty(expr, res, outcome) == evaluateNow(expr, outcome)

EqualsResult(expr, res, outcome) ==
  IF trim(expr) = <<>> THEN res
  ELSE evaluateNow(expr, outcome)

\* ---------------------------------------------------------------- state

\* expression, result, isSciOpen, angleMode: the state the setters have
\* built so far. rendered: the state of the last render, which is what the
\* closure of onKeyPress holds. batch: the presses handled since that render.
VARIABLES expression, result, isSciOpen, angleMode, rendered, batch

vars == <<expression, result, isSciOpen, angleMode, rendered, batch>>

OperatorKeys == {"+", Minus, Times, Divide}

DigitKeys == {DigitChars[i + 1] : i \in 0..MaxDigit} \cup {"."}

UnwiredKeys == {"sin", "cos", "tan", "ln", "log", "1/x", "!"}

\* What the parser may answer for an expression.  The parser (expr-eval) is
\* outside the repository: its answer is any of these, whatever the
\* expression.  The finite answers are 0, 4, -5, 0.30000000000000004, 1e21,
\* 1e30 and 1e-10.
Noise == Fin(FALSE, <<3, 0, 0, 0, 0, 0, 0, 0, 0, 0, 0, 0, 0, 0, 0, 0, 4>>, 0)

EvalOutcomes ==
  { Thrown, NaN, Infinity(FALSE), Infinity(TRUE),
    Fin(FALSE, <<>>, 0), Fin(FALSE, <<4>>, 1), Fin(TRUE, <<5>>, 1), Noise,
    Fin(FALSE, <<1>>, 22), Fin(FALSE, <<1>>, 31), Fin(FALSE, <<1>>, -9) }

\* The labels of the keys written with characters outside ASCII.
PlusMinus == "U+00B1"

MoreLabel == "U+22EF More"

SquareLabel == "xU+00B2"

SqrtLabel == "U+221A"

PowerLabel == "x^y"

\* The state of the screen, as the record a handler reads and sets.
State ==
  [expression |-> expression, result |-> result,
   isSciOpen |-> isSciOpen, angleMode |-> angleMode]

\* setExpression that also forgets the result shown.
setExpressionResetsResult(st, new) ==
  [st EXCEPT !.expression = new, !.result = <<"0">>]

\* setExpression(new), or setExpression((prev) => new)
setExpression(st, new) == [st EXCEPT !.expression = new]

\* case "C", "AC" that forgets setResult("0").
ClearStateKeepsResult(st) == [st EXCEPT !.expression = <<>>]

\* case "C", "AC"
ClearState(st) == [st EXCEPT !.expression = <<>>, !.result = <<"0">>]

\* case "DEG", "RAD" that also forgets the result shown.
ToggleAngleResetsResult(st) ==
  [st EXCEPT !.angleMode = IF @ = "DEG" THEN "RAD" ELSE "DEG",
             !.result = <<"0">>]

\* case "DEG", "RAD"
ToggleAngle(st) ==
  [st EXCEPT !.angleMode = IF @ = "DEG" THEN "RAD" ELSE "DEG"]

\* A default case that types the name of the function.
DefaultCaseTypes(st, label) ==
  [st EXCEPT !.expression = @ \o <<label, "(">>]

\* default: the remaining scientific keys are ignored.
DefaultCase(st, label) == st

\* onKeyPress(label) of the render `seen`, run on the state st, the parser
\* answering `outcome` when "=" calls it: the state the setters leave.
\* "=" reads expression and result, and the operator updater reads result,
\* from the closure, that is from `seen`; every updater gets st.
onKeyPressIn(seen, label, st, outcome) ==
  CASE label \in {"C", "AC"} -> ClearState(st)
    [] label = PlusMinus -> setExpression(st, toggleSign(st.expression))
    [] label = "%" -> setExpression(st, applyPercent(st.expression))
    [] label = MoreLabel -> [st EXCEPT !.isSciOpen = ~@]
    [] label \in {"DEG", "RAD"} -> ToggleAngle(st)
    [] label \in {Pi, "e"} -> setExpression(st, TokenUpdater(st.expression, label))
    [] label = SquareLabel -> setExpression(st, SquareUpdater(st.expression))
    [] label = SqrtLabel -> setExpression(st, SqrtUpdater(st.expression))
    [] label = PowerLabel -> setExpression(st, PowerUpdater(st.expression))
    [] label = "=" ->
         [st EXCEPT
            !.expression =
               EqualsExpression(@, seen.expression, seen.result, outcome),
            !.result = EqualsResult(seen.expression, seen.result, outcome)]
    [] label \in OperatorKeys ->
         setExpression(st, OperatorUpdater(st.expression, seen.result, label))
    [] label \in {"(", ")"} -> setExpression(st, TokenUpdater(st.expression, label))
    [] label \in AllDigits \cup {"."} ->
         setExpression(st, DigitUpdater(st.expression, label))
    [] OTHER -> DefaultCase(st, label)

\* onKeyPress(label) when every press is rendered before the next: the
\* closure holds the state the handler runs on.
onKeyPress(label, st, outcome) == onKeyPressIn(st, label, st, outcome)

\* A key other than "=": the parser is not called.
Press(label) == onKeyPress(label, State, Thrown)

\* The caps that keep the expression finite.
TypedOk(new) ==
  Len(new.expression) <= MaxTyped \/ Len(new.expression) <= Len(expression)

RewriteOk(new) ==
  Len(new.expression) <= MaxLen \/ Len(new.expression) <= Len(expression)

Init ==
  /\ expression = <<>>
  /\ result = <<"0">>
  /\ isSciOpen = FALSE
  /\ angleMode = "DEG"
  /\ rendered = State
  /\ batch = 0

\* The setters' state becomes `new`.
SetState(new) ==
  /\ expression' = new.expression
  /\ result' = new.result
  /\ isSciOpen' = new.isSciOpen
  /\ angleMode' = new.angleMode

\* The press is rendered before the next one is handled.
Apply(new) == SetState(new) /\ rendered' = new /\ batch' = 0

Clear == \E label \in {"C", "AC"} : Apply(Press(label))

ToggleSign == RewriteOk(Press(PlusMinus)) /\ Apply(Press(PlusMinus))

Percent == RewriteOk(Press("%")) /\ Apply(Press("%"))

More == Apply(Press(MoreLabel))

Angle == Apply(Press(angleMode))

Constant(label) == TypedOk(Press(label)) /\ Apply(Press(label))

Square == RewriteOk(Press(SquareLabel)) /\ Apply(Press(SquareLabel))

Sqrt == RewriteOk(Press(SqrtLabel)) /\ Apply(Press(SqrtLabel))

Power == RewriteOk(Press(PowerLabel)) /\ Apply(Press(PowerLabel))

Equals(outcome) == Apply(onKeyPress("=", State, outcome))

Operator(label) == TypedOk(Press(label)) /\ Apply(Press(label))

Paren(label) == TypedOk(Press(label)) /\ Apply(Press(label))

Digit(label) == TypedOk(Press(label)) /\ Apply(Press(label))

Unwired == \E label \in UnwiredKeys : Apply(Press(label))

Next ==
  \/ Clear
  \/ ToggleSign
  \/ Percent
  \/ More
  \/ Angle
  \/ \E label \in {Pi, "e"} : Constant(label)
  \/ Square
  \/ Sqrt
  \/ Power
  \/ \E outcome \in EvalOutcomes : Equals(outcome)
  \/ \E label \in OperatorKeys : Operator(label)
  \/ \E label \in {"(", ")"} : Paren(label)
  \/ \E label \in DigitKeys : Digit(label)
  \/ Unwired

Spec == Init /\ [][Next]_vars

\* ------------------------------------------------- terms of the claims

\* s is a plain number: digits, or digits "." digits.
IsPlainNumber(s) ==
  /\ Len(s) >= 1
  /\ \A k \in 1..Len(s) : s[k] \in AllDigits \cup {"."}
  /\ Cardinality({k \in 1..Len(s) : s[k] = "."}) <= 1
  /\ s[1] # "."
  /\ s[Len(s)] # "."

LastChars(s, m) == SubSeq(s, Len(s) - m + 1, Len(s))

\* The length of the trailing number of s: its longest suffix that is a
\* plain number, 0 when s ends with none.
TrailingLen(s) ==
  LET ms == {m \in 1..Len(s) : IsPlainNumber(LastChars(s, m))}
  IN  IF ms = {} THEN 0 ELSE CHOOSE m \in ms : \A h \in ms : h <= m

\* The lengths m for which s ends with "(-" n ")" , n a plain number of
\* length m.
NegatedLens(s) ==
  {m \in 1..(Len(s) - 3) :
     /\ s[Len(s)] = ")"
     /\ IsPlainNumber(SubSeq(s, Len(s) - m, Len(s) - 1))
     /\ s[Len(s) - m - 1] = "-"
     /\ s[Len(s) - m - 2] = "("}

ValueEnds == AllDigits \cup {")", Pi, "e"}

\* The parser threw, or its value is not finite.
Fails(outcome) == outcome.kind \in {"throw", "nan", "inf"}

\* s is the decimal or exponential notation of a number.
IsNumericString(s) ==
  \E a \in 0..1, b \in 1..Len(s) :
     /\ a = 1 <=> (Len(s) >= 1 /\ s[1] = "-")
     /\ a < b
     /\ IsPlainNumber(SubSeq(s, a + 1, b))
     /\ \/ b = Len(s)
        \/ /\ b + 3 <= Len(s)
           /\ s[b + 1] = "e"
           /\ s[b + 2] \in {"+", "-"}
           /\ AllDigitsIn(s, b + 3, Len(s))

\* ---------------------------------------------------------------- claims
\* A claim about what a key does is stated of the handler's updater applied
\* to the expression of every reachable state.

\* C1: in every reachable state the expression never contains two
\* consecutive binary-operator characters (+, U+2212, U+00D7, U+00F7).
C1_NoDoubleOperator ==
  \A i \in 1..(Len(expression) - 1) :
     ~(expression[i] \in OperatorKeys /\ expression[i + 1] \in OperatorKeys)

\* C2: pressing "(", the pi key or "e" on a non-empty expression whose last
\* character is a digit, ")", pi or "e" yields expression + U+00D7 + token;
\* in every other case, the empty expression and the key ")" included,
\* it yields expression + token.
C2_ImplicitMultiply ==
  \A label \in {"(", ")", Pi, "e"} :
     TokenUpdater(expression, label) =
       IF /\ label # ")"
          /\ expression # <<>>
          /\ LastChar(expression) \in ValueEnds
         THEN expression \o <<Times, label>>
       ELSE expression \o <<label>>

C2_Witness == expression = <<"1", Times, Pi>>

\* C3: pressing the square-root key when the expression does not end with
\* a number yields expression + U+00D7 + "sqrt(" if the expression is
\* non-empty and ends with ")", pi or "e", and expression + "sqrt("
\* otherwise.
C3_SqrtImplicitMultiply ==
  TrailingLen(expression) = 0 =>
    SqrtUpdater(expression) =
      IF expression # <<>> /\ LastChar(expression) \in {")", Pi, "e"}
        THEN expression \o <<Times>> \o SqrtOpen
      ELSE expression \o SqrtOpen

\* C4: on an expression whose last character is one of the four binary
\* operators, pressing a binary-operator key k replaces that character
\* with k and leaves the rest as it was.
C4_OperatorReplaced ==
  \A k \in OperatorKeys :
     (expression # <<>> /\ LastChar(expression) \in OperatorKeys) =>
       OperatorUpdater(expression, result, k) = DropLast(expression, 1) \o <<k>>

\* C5: "=" on a non-empty expression whose evaluation fails sets the result
\* to "Error" and leaves the expression exactly as it was.
C5_FailedEqualsKeepsExpression ==
  \A outcome \in EvalOutcomes :
     (expression # <<>> /\ Fails(outcome)) =>
       /\ EqualsResult(expression, result, outcome) = ErrorStr
       /\ EqualsExpression(expression, expression, result, outcome) = expression

C5_Witness == result = ErrorStr /\ expression = <<"1", "+">>

\* C6: "=" on a non-empty expression whose evaluation succeeds with the
\* display string r sets both the result and the expression to r.
C6_SuccessfulEqualsChains ==
  \A outcome \in EvalOutcomes :
     (expression # <<>> /\ ~Fails(outcome)) =>
       LET r == EqualsResult(expression, result, outcome)
       IN  /\ r # ErrorStr
           /\ IsNumericString(r)
           /\ EqualsExpression(expression, expression, result, outcome) = r

C6_Witness == expression = <<"0", ".", "3">> /\ result = <<"0", ".", "3">>

\* C7: for every expression and every answer of the parser, evaluateNow
\* returns "Error" when the parser throws or its value is not finite, and
\* never returns a string that is neither "Error" nor a number.
C7_EvaluateNeverEscapes ==
  \A outcome \in EvalOutcomes :
     LET r == evaluateNow(expression, outcome)
     IN  /\ Fails(outcome) => r = ErrorStr
         /\ r = ErrorStr \/ IsNumericString(r)

C7_Witness == result = ErrorStr /\ expression = <<"1", Divide, "0">>

C9_ToggleSignRewritesEnd ==
  LET len == Len(expression)
      t == TrailingLen(expression)
      new == toggleSign(expression)
  IN  IF NegatedLens(expression) # {}
        THEN \A m \in NegatedLens(expression) :
               new = SubSeq(expression, 1, len - m - 3)
                       \o SubSeq(expression, len - m, len - 1)
      ELSE IF t > 0
        THEN new = SubSeq(expression, 1, len - t) \o <<"(", "-">>
                     \o LastChars(expression, t) \o <<")">>
      ELSE expression = <<>> => new = <<"-">>

C9_Witness == expression = <<"1", "+", "(", "-", "1", ")">>

\* C10: percent is local to the last number: p + n, n the trailing number,
\* becomes p + "(" + n + "/100)" with p unchanged.
C10_PercentLastTokenLocal ==
  LET t == TrailingLen(expression)
  IN  t > 0 =>
        applyPercent(expression) =
          SubSeq(expression, 1, Len(expression) - t)
            \o <<"(">> \o LastChars(expression, t)
            \o <<"/", "1", "0", "0", ")">>

C10_Witness == expression = <<"1", "+", "(", "1", "/", "1", "0", "0", ")">>

\* The length of the longest suffix of s made of an optional integer part,
\* an optional single decimal point and following digits; 0 when s ends
\* with none.
OptionalIntegerLen(s) ==
  LET ms == {m \in 1..Len(s) :
               /\ \A k \in (Len(s) - m + 1)..Len(s) : s[k] \in AllDigits \cup {"."}
               /\ Cardinality({k \in (Len(s) - m + 1)..Len(s) : s[k] = "."}) <= 1
               /\ s[Len(s)] # "."}
  IN  IF ms = {} THEN 0 ELSE CHOOSE m \in ms : \A h \in ms : h <= m

\* C11: the trailing number that percent, sign toggle and square root
\* rewrite is the longest suffix made of an optional integer part, an
\* optional single decimal point and following digits: of ".5" it is the
\* whole ".5".
C11_OptionalIntegerPart ==
  LET t == OptionalIntegerLen(expression)
      p == SubSeq(expression, 1, Len(expression) - t)
      n == LastChars(expression, t)
  IN  t > 0 =>
        /\ applyPercent(expression) = p \o <<"(">> \o n \o <<"/", "1", "0", "0", ")">>
        /\ toggleSign(expression) = p \o <<"(", "-">> \o n \o <<")">>
        /\ SqrtUpdater(expression) = p \o SqrtOpen \o n \o <<")">>

\* C12: "%" on an expression that ends with no number, and the sign key on
\* a non-empty expression that ends neither with a number nor with "(-n)",
\* leave the expression and the result (the whole state) unchanged.
C12_NoTargetNoOp ==
  /\ TrailingLen(expression) = 0 => Press("%") = State
  /\ (expression # <<>> /\ TrailingLen(expression) = 0
        /\ NegatedLens(expression) = {}) => Press(PlusMinus) = State

C12_Witness == expression = <<"1", ".", Times>> /\ result = <<"0">>

\* C13: the square-root key on p + n, n the trailing number, gives
\* p + "sqrt(" + n + ")" with p unchanged.
C13_SqrtRewritesLastNumber ==
  LET t == TrailingLen(expression)
  IN  t > 0 =>
        SqrtUpdater(expression) =
          SubSeq(expression, 1, Len(expression) - t)
            \o SqrtOpen \o LastChars(expression, t) \o <<")">>

C13_Witness == expression = <<"1", "+">> \o SqrtOpen \o <<"1", ")">>

\* C14: the square key (the power key) appends "^2" ("^") exactly when the
\* expression is non-empty and its last character is a digit, ")", pi or
\* "e"; in every other case the expression is unchanged.
C14_PowerNeedsValue ==
  LET ok == expression # <<>> /\ LastChar(expression) \in ValueEnds
  IN  /\ SquareUpdater(expression) =
           IF ok THEN expression \o <<"^", "2">> ELSE expression
      /\ PowerUpdater(expression) =
           IF ok THEN expression \o <<"^">> ELSE expression

C14_Witness == expression = <<"(", "1", ")", "^", "2">>

\* C15: in every reachable state every maximal run of digits and decimal
\* points of the expression has at most one ".".
C15_OneDotPerNumber ==
  \A i, j \in 1..Len(expression) :
     (i < j /\ expression[i] = "." /\ expression[j] = ".") =>
        \E k \in i..j : expression[k] \notin AllDigits \cup {"."}

\* C16: a digit key or "." is appended as it is: in every reachable state
\* the key k gives the expression + k and leaves the rest of the state
\* unchanged.
C16_DigitAppendedVerbatim ==
  \A k \in AllDigits \cup {"."} :
     Press(k) = [State EXCEPT !.expression = expression \o <<k>>]

C16_Witness == expression = <<"0", "0", ".">> /\ result = <<"0">>

\* C17: from every reachable state, one showing "Error" included, "C" and
\* "AC" both give the empty expression and the result "0".
C17_ClearResets ==
  \A label \in {"C", "AC"} :
     Press(label) = [State EXCEPT !.expression = <<>>, !.result = <<"0">>]

C17_Witness ==
  /\ result = ErrorStr
  /\ expression = <<"(", ")">>
  /\ Press("C").result = <<"0">>
  /\ Press("AC").expression = <<>>

\* C18: a binary operator pressed on the empty expression while the result
\* is "0" is ignored: the state is unchanged.
C18_LeadingOperatorIgnored ==
  (expression = <<>> /\ result = <<"0">>) =>
     \A k \in OperatorKeys : Press(k) = State

C18_Witness ==
  expression = <<>> /\ result = <<"0">> /\ isSciOpen /\ angleMode = "RAD"

\* Strings "=" can leave in the result: "Error", "0", "4", "-5" and "0.3".
DisplayedResults ==
  {evaluateNow(<<"1">>, outcome) :
     outcome \in {Thrown, Fin(FALSE, <<>>, 0), Fin(FALSE, <<4>>, 1),
                  Fin(TRUE, <<5>>, 1), Noise}}

\* The operator case as a function of what it reads: the empty expression
\* it is handed, with each result its closure can hold. In Spec the empty
\* expression goes with the result "0" only.
InitChaining ==
  /\ expression = <<>>
  /\ result \in DisplayedResults
  /\ isSciOpen = FALSE
  /\ angleMode = "DEG"
  /\ rendered = State
  /\ batch = 0

SpecChaining == InitChaining /\ [][Next]_vars

\* C19: a binary operator k pressed on the empty expression while the
\* result r is not "0" gives the expression r + k, the rest of the state
\* unchanged.
C19_ChainingSeedsResult ==
  (expression = <<>> /\ result # <<"0">>) =>
     \A k \in OperatorKeys :
        Press(k) = [State EXCEPT !.expression = result \o <<k>>]

C19_Witness ==
  /\ expression = <<>>
  /\ result = <<"-", "5">>
  /\ isSciOpen
  /\ Press(Times).expression = <<"-", "5", Times>>

\* C20: "=" pressed again on the expression a failed "=" left, the parser
\* failing on it as it did, changes nothing: the state after the second "="
\* is the state after the first, which holds the same expression and the
\* result "Error".
C20_RepeatedEqualsIdempotent ==
  \A outcome \in EvalOutcomes :
     (trim(expression) # <<>> /\ Fails(outcome)) =>
        LET first == onKeyPress("=", State, outcome)
            second == onKeyPress("=", first, outcome)
        IN  /\ first.expression = expression
            /\ first.result = ErrorStr
            /\ second = first

C20_Witness == result = ErrorStr /\ expression = <<"1", ".", ".">>

\* Every label of the two keypads.
KeyLabels ==
  {"C", "AC", PlusMinus, "%", MoreLabel, "DEG", "RAD", Pi, "e", "(", ")",
   SquareLabel, SqrtLabel, PowerLabel, "="}
    \cup OperatorKeys \cup AllDigits \cup {"."} \cup UnwiredKeys

\* C21: every key other than "=", "C" and "AC" leaves the result as it is,
\* in every reachable state, one showing "Error" included.
C21_ResultRetained ==
  \A label \in KeyLabels \ {"=", "C", "AC"} : Press(label).result = result

C21_Witness == result = ErrorStr /\ expression = <<"1", "+", "1">>

\* C22: each of sin, cos, tan, ln, log, 1/x and ! leaves the whole state
\* (expression, result, angle mode, panel) unchanged in every reachable
\* state.
C22_UnwiredKeysNoOp == \A label \in UnwiredKeys : Press(label) = State

C22_Witness ==
  /\ isSciOpen
  /\ expression = <<"1", "^", "2">>
  /\ Press("sin").expression = <<"1", "^", "2">>

\* C23: the panel key and the angle key change neither expression nor
\* result, and what any key does to expression and result is what it does
\* in the state with the panel closed and the mode "DEG", so is the same
\* whatever the panel flag and the angle mode are. By induction on the key
\* sequence, removing the presses of these two keys changes neither.
C23_TogglesDoNotInterfere ==
  LET closed == [State EXCEPT !.isSciOpen = FALSE, !.angleMode = "DEG"]
  IN  \A label \in KeyLabels :
         \A outcome \in (IF label = "=" THEN EvalOutcomes ELSE {Thrown}) :
            LET here == onKeyPress(label, State, outcome)
                there == onKeyPress(label, closed, outcome)
            IN  /\ here.expression = there.expression
                /\ here.result = there.result
                /\ label \in {MoreLabel, "DEG", "RAD"} =>
                     here.expression = expression /\ here.result = result

C23_Witness ==
  /\ isSciOpen
  /\ angleMode = "RAD"
  /\ expression = <<"-", "5">>
  /\ result = <<"-", "5">>

\* ------------------------------------------- presses between two renders
\* The handlers of several presses run before the component renders again:
\* each runs with the closure of the last render, and its setters act on
\* the state the earlier ones left.
BatchKeys == DigitKeys \cup OperatorKeys \cup {"=", "C"}

Handle(label, outcome) ==
  LET new == onKeyPressIn(rendered, label, State, outcome)
  IN  /\ batch < MaxBatch
      /\ TypedOk(new)
      /\ SetState(new)
      /\ rendered' = rendered
      /\ batch' = batch + 1

Render ==
  /\ batch > 0
  /\ rendered' = State
  /\ batch' = 0
  /\ UNCHANGED <<expression, result, isSciOpen, angleMode>>

NextBatch ==
  \/ \E label \in BatchKeys \ {"="} : Handle(label, Thrown)
  \/ \E outcome \in EvalOutcomes : Handle("=", outcome)
  \/ Render

SpecBatch == Init /\ [][NextBatch]_vars

C25_SanitizeReplacesGlyphs ==
  LET out == sanitize(expression)
      pis(i) == Cardinality({k \in 1..i : expression[k] = Pi})
  IN  /\ Len(out) = Len(expression) + pis(Len(expression))
      /\ \A i \in 1..Len(expression) :
            LET j == i + pis(i - 1)
                ch == expression[i]
            IN  IF ch = Times THEN out[j] = "*"
                ELSE IF ch = Divide THEN out[j] = "/"
                ELSE IF ch = Minus THEN out[j] = "-"
                ELSE IF ch = Pi THEN out[j] = "p" /\ out[j + 1] = "i"
                ELSE out[j] = ch
      /\ \A j \in 1..Len(out) : out[j] \notin {Times, Divide, Minus, Pi}

C25_Witness == expression = <<Pi, Minus, Pi>>

\* The native string of the value uses exponential notation.
IsExponential(value) ==
  isFinite(value) /\ Contains(FiniteToString(value), "e")

\* The value in exponential form with 10 significant digits, the trailing
\* zeros of the mantissa dropped: d, or d.ddd, then e+x or e-x.
ShortestExponential(v) ==
  LET k == Len(v.digs)
      head == SubSeq(v.digs, 1, Precision)
      r == IF k <= Precision THEN v.digs
           ELSE IF v.digs[Precision + 1] >= 5 THEN Inc(head) ELSE head
      ds == DigitStr(StripZeroDigits(r))
      e == IF Len(r) > Precision THEN v.n ELSE v.n - 1
  IN  SignStr(v.neg) \o <<ds[1]>>
        \o (IF Len(ds) > 1 THEN <<".">> \o SubSeq(ds, 2, Len(ds)) ELSE <<>>)
        \o ExponentStr(e)

\* C26: "=" on a value whose native string is exponential shows it with 10
\* significant digits in exponential form without the trailing zeros of
\* the mantissa: 1e21 is shown as "1e+21".
C26_ExponentialStripped ==
  \A outcome \in EvalOutcomes :
     (expression # <<>> /\ IsExponential(outcome)) =>
        /\ formatResult(outcome) = ShortestExponential(outcome)
        /\ onKeyPress("=", State, outcome).result = ShortestExponential(outcome)

\* The digits after the "." of s, none when s has no ".".
FractionOf(s) ==
  LET dots == {i \in 1..Len(s) : s[i] = "."}
  IN  IF dots = {} THEN <<>>
      ELSE SubSeq(s, (CHOOSE i \in dots : TRUE) + 1, Len(s))

\* C27: "=" on a finite value whose native string is not exponential shows
\* the value rounded to 10 decimal places in plain notation: at most 10
\* digits after the point, the last of them not "0", no point without
\* digits after it; 0.30000000000000004 is shown as "0.3" and 4 as "4".
C27_RoundedToTenPlaces ==
  \A outcome \in EvalOutcomes :
     (expression # <<>> /\ isFinite(outcome) /\ ~IsExponential(outcome)) =>
        LET r == onKeyPress("=", State, outcome).result
        IN  /\ r = formatResult(outcome)
            /\ r = FiniteToString(RoundPlaces(outcome))
            /\ ~Contains(r, "e")
            /\ LastChar(r) # "."
            /\ Len(FractionOf(r)) <= DecimalPlaces
            /\ Contains(r, ".") => LastChar(r) # "0"
            /\ outcome = Noise => r = <<"0", ".", "3">>
            /\ outcome = Fin(FALSE, <<4>>, 1) => r = <<"4">>

C27_Witness == result = <<"0", ".", "3">> /\ isSciOpen /\ angleMode = "RAD"

\* C28: in every reachable state the empty expression goes with the result
\* "0"; so the operator case never starts the expression from a result,
\* and no expression begins with "Error".
C28_EmptyMeansZero ==
  /\ expression = <<>> => result = <<"0">>
  /\ \A k \in OperatorKeys :
        ~(expression = <<>> /\ Press(k).expression = result \o <<k>>)
  /\ Len(expression) >= Len(ErrorStr) =>
        SubSeq(expression, 1, Len(ErrorStr)) # ErrorStr

C28_Witness ==
  expression = <<>> /\ result = <<"0">> /\ ~isSciOpen /\ angleMode = "RAD"

\* C29: in every reachable state the expression does not begin with one of
\* the binary operators +, U+2212, U+00D7, U+00F7.
C29_NoLeadingOperator ==
  expression # <<>> => expression[1] \notin OperatorKeys

\* C30: percent applied twice gives what percent applied once gives, for
\* the expression of every reachable state.
C30_PercentIdempotent ==
  /\ applyPercent(applyPercent(expression)) = applyPercent(expression)
  /\ onKeyPress("%", Press("%"), Thrown) = Press("%")

C30_Witness == expression = <<"(", "1", "/", "1", "0", "0", ")">>

\* C31: "=" on the empty expression evaluates nothing: the state is
\* unchanged, whatever the parser would answer and whatever result is
\* shown, so it never shows "Error".
C31_EqualsOnEmptyNoOp ==
  expression = <<>> =>
     \A outcome \in EvalOutcomes :
        /\ onKeyPress("=", State, outcome) = State
        /\ \A res \in DisplayedResults :
              LET shown == [State EXCEPT !.result = res]
              IN  onKeyPress("=", shown, outcome) = shown

C31_Witness ==
  expression = <<>> /\ result = <<"0">> /\ isSciOpen /\ angleMode = "DEG"

\* --------------------------------------------- parenthesized numbers
\* The keys that type a parenthesized number with the keypad minus, and the
\* sign key, up to MaxSigned characters.
SignedKeys == {"(", ")", Minus, "1", "."}

TypeSigned(label) ==
  /\ Len(Press(label).expression) <= MaxSigned
  /\ Apply(Press(label))

SignOfSigned ==
  /\ Len(Press(PlusMinus).expression) <= MaxSigned + 2
  /\ Apply(Press(PlusMinus))

NextSigned ==
  \/ \E label \in SignedKeys : TypeSigned(label)
  \/ SignOfSigned

SpecSigned == Init /\ [][NextSigned]_vars

\* The lengths m for which s ends with "(" U+2212 n ")", n a plain number
\* of length m.
KeypadNegatedLens(s) ==
  {m \in 1..(Len(s) - 3) :
     /\ s[Len(s)] = ")"
     /\ IsPlainNumber(SubSeq(s, Len(s) - m, Len(s) - 1))
     /\ s[Len(s) - m - 1] = Minus
     /\ s[Len(s) - m - 2] = "("}

\* C32: the sign key on an expression ending with "(" U+2212 n ")", the
\* minus typed with the keypad, leaves the state unchanged: it does not
\* unwrap to n.
C32_KeypadMinusNotUnwrapped ==
  KeypadNegatedLens(expression) # {} =>
     /\ toggleSign(expression) = expression
     /\ Press(PlusMinus) = State

C32_Witness == expression = <<"(", Minus, "1", ")">>

\* The part of s from its "e" on, empty when s has none.
ExponentOf(s) ==
  LET es == {i \in 1..Len(s) : s[i] = "e"}
  IN  IF es = {} THEN <<>> ELSE SubSeq(s, CHOOSE i \in es : TRUE, Len(s))

\* C33: the string shown for a value whose native string is exponential
\* has the exponent, sign and digits, of the value's rendering with 10
\* significant digits: 1e30 ends with "e+30", 1e-10 with "e-10".
C33_ExponentKept ==
  \A outcome \in EvalOutcomes :
     (expression # <<>> /\ IsExponential(outcome)) =>
        LET shown == onKeyPress("=", State, outcome).result
        IN  /\ shown = formatResult(outcome)
            /\ ExponentOf(shown) = ExponentOf(toPrecision(outcome))

====
